---- MODULE Spec2Model ----
(***************************************************************************)
(* Mini search engine: Boolean retrieval over an inverted index and ranked *)
(* retrieval with a TF-IDF vector space model.                             *)
(*                                                                         *)
(* A document collection is the ordered mapping load_docs returns          *)
(* (a Python dict, iterated in insertion order): a sequence of             *)
(* [id, toks] records with pairwise distinct ids.  A query string is a     *)
(* sequence of lexemes: " " is a run of whitespace, "-" a hyphen, every    *)
(* other lexeme a run of word characters; adjacent lexemes are adjacent    *)
(* in the string.                                                          *)
(***************************************************************************)
EXTENDS Integers, Sequences, FiniteSets, TLC

VARIABLES docs, phase, inverted, vsm, wm_std, wm_sub, op, query, scheme, top_k, result,
          wm_name, ev_res, gold_set, ev_k, metrics

vars == <<docs, phase, inverted, vsm, wm_std, wm_sub, op, query, scheme, top_k, result,
          wm_name, ev_res, gold_set, ev_k, metrics>>

\* the state of the evaluation, which the builds and the searches leave alone
evaluation == <<ev_res, gold_set, ev_k, metrics>>

(***************************************************************************)
(* Bounds of the model.                                                    *)
(***************************************************************************)
MaxDocLen == 2
MaxQueryLen == 4
MaxRawLen == 3
MaxOperands == 3
MaxVsmQueryLen == 2
MaxTopK == 3
MaxResLen == 3
MaxK == 4

(***************************************************************************)
(* Vocabulary.                                                             *)
(***************************************************************************)
DocIds == <<"d1", "d2", "d3">>
Terms == {"itb", "ugm", "kota"}
OpWords == {"AND", "or", "Not"}
BoolWords == OpWords \cup {"itb", "UGM"}
RawLexemes == {" ", "-", "itb", "Not", "and"}

Last(s) == s[Len(s)]
Front(s) == SubSeq(s, 1, Len(s) - 1)
Min(a, b) == IF a <= b THEN a ELSE b
Max(a, b) == IF a >= b THEN a ELSE b
TokSet(toks) == {toks[i] : i \in 1..Len(toks)}
SeqsUpTo(S, n) == UNION {[1..k -> S] : k \in 0..n}

\* dict.get(key, default)
Get(d, k, default) == IF k \in DOMAIN d THEN d[k] ELSE default

EmptyDict == [k \in {} |-> {}]

(***************************************************************************)
(* boolean_ir.build_inverted_index                                         *)
(***************************************************************************)
\* a variant of AddPosting that assigns the posting set instead of adding to it
AddPostingOverwrite(inv, t, doc) ==
  [k \in (DOMAIN inv) \cup {t} |-> IF k = t THEN {doc} ELSE inv[k]]

\* inverted[t].add(doc) on a defaultdict(set)
AddPosting(inv, t, doc) ==
  [k \in (DOMAIN inv) \cup {t} |-> IF k = t THEN Get(inv, t, {}) \cup {doc} ELSE inv[k]]

\* the inner loop "for t in set(toks): inverted[t].add(doc)"; adding a posting
\* twice changes nothing, so walking the token list visits set(toks)
RECURSIVE IndexDoc(_, _, _)
IndexDoc(inv, doc, toks) ==
  IF toks = <<>> THEN inv
  ELSE IndexDoc(AddPosting(inv, Head(toks), doc), doc, Tail(toks))

RECURSIVE IndexDocs(_, _)
IndexDocs(inv, ds) ==
  IF ds = <<>> THEN inv
  ELSE IndexDocs(IndexDoc(inv, Head(ds).id, Head(ds).toks), Tail(ds))

build_inverted_index(ds) == IndexDocs(EmptyDict, ds)

(***************************************************************************)
(* boolean_ir.eval_boolean: tokenisation                                   *)
(***************************************************************************)
\* str.lower() on the lexemes of the model's vocabulary
Lower(w) ==
  CASE w = "AND" -> "and"
    [] w = "OR" -> "or"
    [] w = "NOT" -> "not"
    [] w = "Not" -> "not"
    [] w = "UGM" -> "ugm"
    [] OTHER -> w

Keywords == {"not", "and", "or"}

RECURSIVE Concat(_)
Concat(run) == IF run = <<>> THEN "" ELSE Head(run) \o Concat(Tail(run))

\* re.findall on one maximal run of [\w-] characters: a keyword alternative
\* matches only at the start of the run and only when a word boundary follows
\* it (the run ends or a hyphen follows); [\w-]+ takes whatever is left
RunTokens(run) ==
  IF run = <<>> THEN <<>>
  ELSE IF Head(run) \in Keywords /\ Len(run) = 1 THEN <<Head(run)>>
  ELSE IF Head(run) \in Keywords /\ run[2] = "-" THEN <<Head(run), Concat(Tail(run))>>
  ELSE <<Concat(run)>>

RECURSIVE FindAll(_, _)
FindAll(q, run) ==
  IF q = <<>> THEN RunTokens(run)
  ELSE IF Head(q) = " " THEN RunTokens(run) \o FindAll(Tail(q), <<>>)
  ELSE FindAll(Tail(q), Append(run, Head(q)))

\* lines 90-92: lower(), strip(), findall, keywords to upper case
Upper(t) == CASE t = "and" -> "AND" [] t = "or" -> "OR" [] t = "not" -> "NOT" [] OTHER -> t

Tokenize(q) ==
  LET low == [i \in 1..Len(q) |-> Lower(q[i])]
      found == FindAll(low, <<>>)
  IN [i \in 1..Len(found) |-> Upper(found[i])]

(***************************************************************************)
(* boolean_ir.eval_boolean: infix to postfix                               *)
(***************************************************************************)
Operators == {"AND", "OR", "NOT"}

\* a variant of prec that gives AND the precedence of OR
precFlat(tok) == CASE tok = "NOT" -> 3 [] tok = "AND" -> 1 [] tok = "OR" -> 1 [] OTHER -> 0

\* prec = {"NOT": 3, "AND": 2, "OR": 1}; prec.get(x, 0)
prec(tok) == CASE tok = "NOT" -> 3 [] tok = "AND" -> 2 [] tok = "OR" -> 1 [] OTHER -> 0

\* the condition of the inner while loop, line 101
PopsBefore(top, tok) == prec(top) >= prec(tok)

\* while stack and prec.get(stack[-1], 0) >= prec[tok]: output.append(stack.pop())
RECURSIVE PopWhile(_, _, _)
PopWhile(output, stack, tok) ==
  IF stack # <<>> /\ PopsBefore(Last(stack), tok)
  THEN PopWhile(Append(output, Last(stack)), Front(stack), tok)
  ELSE [output |-> output, stack |-> stack]

\* while stack: output.append(stack.pop())
RECURSIVE Flush(_, _)
Flush(output, stack) ==
  IF stack = <<>> THEN output ELSE Flush(Append(output, Last(stack)), Front(stack))

RECURSIVE Shunt(_, _, _)
Shunt(tokens, output, stack) ==
  IF tokens = <<>> THEN Flush(output, stack)
  ELSE LET tok == Head(tokens) IN
    IF tok \in Operators
    THEN LET p == PopWhile(output, stack, tok)
         IN Shunt(Tail(tokens), p.output, Append(p.stack, tok))
    ELSE Shunt(Tail(tokens), Append(output, tok), stack)

ToPostfix(tokens) == Shunt(tokens, <<>>, <<>>)

(***************************************************************************)
(* boolean_ir.eval_boolean: postfix evaluation.  The evaluation state is   *)
(* [raised, stack]: list.pop() on an empty list raises IndexError, which   *)
(* ends the call.                                                          *)
(***************************************************************************)
\* all_docs = set().union(*inverted_index.values()) if inverted_index else set()
AllDocs(inverted_index) == UNION {inverted_index[t] : t \in DOMAIN inverted_index}

Push(st, v) == [st EXCEPT !.stack = Append(@, v)]

\* eval_stack.pop(): the popped value goes to .top
Pop(st) ==
  IF st.raised \/ st.stack = <<>>
  THEN [raised |-> TRUE, stack |-> <<>>, top |-> {}]
  ELSE [raised |-> FALSE, stack |-> Front(st.stack), top |-> Last(st.stack)]

\* a variant of HasTwoOperands that asks for one operand only
HasOneOperand(stack) == Len(stack) >= 1

\* the guard of the AND and OR branches, lines 121 and 126
HasTwoOperands(stack) == Len(stack) >= 2

\* a variant of EvalNot that complements in the ids of the whole collection
EvalNotAllIds(st, all_docs) ==
  LET ids == {docs[i].id : i \in 1..Len(docs)}
      st1 == IF st.stack = <<>> THEN Push(st, ids) ELSE st
      a == Pop(st1)
  IN IF a.raised THEN [raised |-> TRUE, stack |-> <<>>]
     ELSE [raised |-> FALSE, stack |-> Append(a.stack, ids \ a.top)]

\* the NOT branch, lines 114-119
EvalNot(st, all_docs) ==
  LET st1 == IF st.stack = <<>> THEN Push(st, all_docs) ELSE st
      a == Pop(st1)
  IN IF a.raised THEN [raised |-> TRUE, stack |-> <<>>]
     ELSE [raised |-> FALSE, stack |-> Append(a.stack, all_docs \ a.top)]

\* a variant of Combine that takes the difference A - B for AND
CombineDifference(tok, A, B) == IF tok = "AND" THEN A \ B ELSE A \cup B

\* A & B, A | B
Combine(tok, A, B) == IF tok = "AND" THEN A \cap B ELSE A \cup B

\* the AND and OR branches, lines 120-129
EvalBinary(st, tok) ==
  IF HasTwoOperands(st.stack)
  THEN LET b == Pop(st)
           a == Pop(b)
       IN IF a.raised THEN [raised |-> TRUE, stack |-> <<>>]
          ELSE [raised |-> FALSE, stack |-> Append(a.stack, Combine(tok, a.top, b.top))]
  ELSE st

EvalTok(st, tok, inverted_index, all_docs) ==
  IF tok = "NOT" THEN EvalNot(st, all_docs)
  ELSE IF tok \in {"AND", "OR"} THEN EvalBinary(st, tok)
  ELSE Push(st, Get(inverted_index, tok, {}))

RECURSIVE EvalPostfix(_, _, _, _)
EvalPostfix(output, st, inverted_index, all_docs) ==
  IF output = <<>> \/ st.raised THEN st
  ELSE EvalPostfix(Tail(output), EvalTok(st, Head(output), inverted_index, all_docs),
                   inverted_index, all_docs)

\* a variant of Return without the empty-stack test: eval_stack[-1] raises
ReturnTop(st) ==
  IF st.raised \/ st.stack = <<>> THEN [raised |-> TRUE, val |-> {}]
  ELSE [raised |-> FALSE, val |-> Last(st.stack)]

\* return eval_stack[-1] if eval_stack else set()
Return(st) ==
  IF st.raised THEN [raised |-> TRUE, val |-> {}]
  ELSE [raised |-> FALSE, val |-> IF st.stack # <<>> THEN Last(st.stack) ELSE {}]

\* the value eval_boolean hands back: [raised, val]
eval_boolean(q, inverted_index) ==
  LET output == ToPostfix(Tokenize(q))
  IN Return(EvalPostfix(output, [raised |-> FALSE, stack |-> <<>>],
                        inverted_index, AllDocs(inverted_index)))

search_boolean(q, inverted_index) == eval_boolean(q, inverted_index)

\* The index as a call of eval_boolean leaves it.  The index is a plain dict
\* (build_inverted_index returns dict(inverted)): .values() and .get(tok, set())
\* read it and insert no key, and A & B, A | B and all_docs - A build new sets,
\* so no posting set is changed in place.
IndexAfterLookup(inverted_index, tok) == inverted_index

RECURSIVE IndexAfterPostfix(_, _)
IndexAfterPostfix(output, inverted_index) ==
  IF output = <<>> THEN inverted_index
  ELSE IndexAfterPostfix(Tail(output),
                         IF Head(output) \in Operators THEN inverted_index
                         ELSE IndexAfterLookup(inverted_index, Head(output)))

IndexAfter(q, inverted_index) == IndexAfterPostfix(ToPostfix(Tokenize(q)), inverted_index)

(***************************************************************************)
(* search_engine.preprocess.  The stop word list and the stemmer are       *)
(* NLTK's; they are given here on the words of the model's vocabulary.     *)
(***************************************************************************)
\* the members of stopwords.words("english") among the model's words
STOPWORDS == {"the", "and", "or", "not"}

\* PorterStemmer().stem: step 1a drops the final "s" of "kampus", no rule
\* applies to the other words of the vocabulary
Stem(w) == IF w = "kampus" THEN "kampu" ELSE w

\* text.split() after re.sub(r"[^a-z0-9\s]", " ", text): the words of the text
RECURSIVE Split(_, _)
Split(text, run) ==
  LET word == IF run = <<>> THEN <<>> ELSE <<Concat(run)>> IN
  IF text = <<>> THEN word
  ELSE IF Head(text) \in {" ", "-"} THEN word \o Split(Tail(text), <<>>)
  ELSE Split(Tail(text), Append(run, Head(text)))

preprocess(text) ==
  LET low == [i \in 1..Len(text) |-> Lower(text[i])]
      kept == SelectSeq(Split(low, <<>>), LAMBDA w : w \notin STOPWORDS)
  IN [i \in 1..Len(kept) |-> Stem(kept[i])]

\* " ".join(words)
RECURSIVE Join(_)
Join(words) ==
  IF words = <<>> THEN <<>>
  ELSE IF Len(words) = 1 THEN <<Head(words)>>
  ELSE <<Head(words), " ">> \o Join(Tail(words))

\* collections.Counter(tokens)
Counter(tokens) ==
  [t \in TokSet(tokens) |-> Cardinality({i \in 1..Len(tokens) : tokens[i] = t})]

\* the keys of Counter(tokens) in the order the dict holds them: first occurrence
RECURSIVE Keys(_)
Keys(tokens) ==
  IF tokens = <<>> THEN <<>>
  ELSE IF Last(tokens) \in TokSet(Front(tokens)) THEN Keys(Front(tokens))
  ELSE Append(Keys(Front(tokens)), Last(tokens))

(***************************************************************************)
(* Real arithmetic.  A float whose value depends on math.log or math.sqrt  *)
(* is held as a pair <<lo, hi>> of fixed-point numbers in units of 1/Unit  *)
(* (a score: in units of 1/ScoreUnit) that bound the real number the float *)
(* approximates: lo <= x <= hi.  The pair <<n, n>> is the number n exactly.*)
(* Every operation rounds lo down and hi up.  The operands stay below      *)
(* 46340 * Kilo, sums below 2^31.                                          *)
(***************************************************************************)
Kilo == 1000
Unit == Kilo * Kilo
ScoreUnit == 1000

Zero == <<0, 0>>
One == <<Unit, Unit>>

\* math.log(n) for n = 1..8: the table holds the floor of Unit * ln(n)
LogTable == <<0, 693147, 1098612, 1386294, 1609437, 1791759, 1945910, 2079441>>
Log(n) == IF n = 1 THEN Zero ELSE <<LogTable[n], LogTable[n] + 1>>

\* math.log(a / b) for integers a >= b >= 1; a = b gives log(1.0) = 0.0
LogRatio(a, b) ==
  IF a = b THEN Zero ELSE <<Log(a)[1] - Log(b)[2], Log(a)[2] - Log(b)[1]>>

\* x + y for x, y >= 0
IAdd(x, y) == <<x[1] + y[1], x[2] + y[2]>>

\* x * y for x, y >= 0: parts(a, b) is <<q, r>> with a * b = q * Unit + r,
\* computed without leaving 32 bits; the lower bound is rounded down, the
\* upper bound rounded up
IMul(x, y) ==
  LET parts(a, b) ==
        LET a1 == a \div Kilo
            a0 == a % Kilo
            b1 == b \div Kilo
            b0 == b % Kilo
            m == a1 * b0 + a0 * b1
            low == (m % Kilo) * Kilo + a0 * b0
        IN <<a1 * b1 + (m \div Kilo) + (low \div Unit), low % Unit>>
      lo == parts(x[1], y[1])
      hi == parts(x[2], y[2])
  IN <<lo[1], IF hi[2] = 0 THEN hi[1] ELSE hi[1] + 1>>

\* n * scale / d for a power of ten scale, rounded down and rounded up, digit
\* by digit
RECURSIVE ScaledDivDown(_, _, _)
ScaledDivDown(n, d, scale) ==
  IF scale = 1 THEN n \div d
  ELSE (n \div d) * scale + ScaledDivDown(10 * (n % d), d, scale \div 10)

RECURSIVE ScaledDivUp(_, _, _)
ScaledDivUp(n, d, scale) ==
  IF scale = 1 THEN (n + d - 1) \div d
  ELSE (n \div d) * scale + ScaledDivUp(10 * (n % d), d, scale \div 10)

\* math.sqrt(x) for x >= 1, in units of 1/Unit: with s the integer square
\* root of n and r = n - s * s,
\*   s + r / (2 * s + 1) <= sqrt(n) <= s + r / (2 * s)
Sqrt(x) ==
  LET RECURSIVE Between(_, _, _)
      Between(n, lo, hi) ==
        IF lo >= hi THEN lo
        ELSE LET mid == (lo + hi + 1) \div 2
             IN IF mid * mid <= n THEN Between(n, mid, hi) ELSE Between(n, lo, mid - 1)
      Root(n) == Between(n, 0, Min(n, 46340))
      Down(n, s) == s * Kilo + (Kilo * (n - s * s)) \div (2 * s + 1)
      Up(n, s) == IF s = 0 THEN 0 ELSE s * Kilo + (Kilo * (n - s * s) + 2 * s - 1) \div (2 * s)
  IN <<Down(x[1], Root(x[1])), Up(x[2], Root(x[2]))>>

\* sum(...) of the intervals f[x], x in S
RECURSIVE SumOver(_, _)
SumOver(f, S) ==
  IF S = {} THEN Zero
  ELSE LET x == CHOOSE y \in S : TRUE IN IAdd(f[x], SumOver(f, S \ {x}))

(***************************************************************************)
(* search_engine.build_vsm and the two weightings.  tf and the weight      *)
(* models are dicts keyed by document, kept in insertion order: sequences  *)
(* of [id, ...] records.  The inner dict of a document is a function of    *)
(* its terms together with the order of its keys.                          *)
(***************************************************************************)
\* for term in set(tokens): df[term] += 1
CountDoc(df, S) ==
  [t \in (DOMAIN df) \cup S |-> Get(df, t, 0) + IF t \in S THEN 1 ELSE 0]

RECURSIVE DocFreq(_, _)
DocFreq(df, tfs) ==
  IF tfs = <<>> THEN df
  ELSE DocFreq(CountDoc(df, DOMAIN Head(tfs).tf), Tail(tfs))

\* tf[doc_id] = Counter(tokens)
TermFreq(id, tokens) == [id |-> id, tf |-> Counter(tokens), keys |-> Keys(tokens)]

\* a variant of Idf without the smoothing: math.log(N / df[t])
IdfUnsmoothed(N, dft) == LogRatio(N, dft)

\* math.log((N + 1) / (df[t] + 1)) + 1
Idf(N, dft) == IAdd(LogRatio(N + 1, dft + 1), One)

build_vsm(ds) ==
  LET tf == [i \in 1..Len(ds) |-> TermFreq(ds[i].id, preprocess(Join(ds[i].toks)))]
      df == DocFreq([t \in {} |-> 0], tf)
      N == Len(ds)
  IN [tf |-> tf, df |-> df, idf |-> [t \in DOMAIN df |-> Idf(N, df[t])]]

\* freq * idf
WeightStandard(freq, idf) == <<freq * idf[1], freq * idf[2]>>

\* (1 + math.log(freq)) * idf
WeightSublinear(freq, idf) == IMul(IAdd(One, Log(freq)), idf)

weight_tfidf_standard(v) ==
  [i \in 1..Len(v.tf) |->
     [id |-> v.tf[i].id,
      w |-> [t \in DOMAIN v.tf[i].tf |-> WeightStandard(v.tf[i].tf[t], Get(v.idf, t, Zero))],
      keys |-> v.tf[i].keys]]

weight_tfidf_sublinear(v) ==
  [i \in 1..Len(v.tf) |->
     [id |-> v.tf[i].id,
      w |-> [t \in DOMAIN v.tf[i].tf |-> WeightSublinear(v.tf[i].tf[t], Get(v.idf, t, Zero))],
      keys |-> v.tf[i].keys]]

(***************************************************************************)
(* search_engine.rank_vsm                                                  *)
(***************************************************************************)
\* a variant of QueryVector that gives a term without an idf entry the idf 1
QueryVectorUnseenOne(q_tf, v, sch) ==
  [t \in DOMAIN q_tf |->
     IF sch = "sublinear" THEN WeightSublinear(q_tf[t], Get(v.idf, t, One))
     ELSE WeightStandard(q_tf[t], Get(v.idf, t, One))]

\* lines 86-87
QueryVector(q_tf, v, sch) ==
  [t \in DOMAIN q_tf |->
     IF sch = "sublinear" THEN WeightSublinear(q_tf[t], Get(v.idf, t, Zero))
     ELSE WeightStandard(q_tf[t], Get(v.idf, t, Zero))]

\* line 91
Dot(weights, q_vec) ==
  SumOver([t \in (DOMAIN q_vec) \cap (DOMAIN weights) |-> IMul(weights[t], q_vec[t])],
          (DOMAIN q_vec) \cap (DOMAIN weights))

\* lines 92-93
Norm(weights) == SumOver([t \in DOMAIN weights |-> IMul(weights[t], weights[t])], DOMAIN weights)

\* line 96: score = dot / math.sqrt(d_norm * q_norm), for d_norm, q_norm >= 1.
\* The square root of the product is taken as the product of the square
\* roots, which is the same real number and stays within 32 bits.  A dot
\* product of 0 gives the score 0.0.  Any other score lies strictly between
\* the two bounds (above 0 where the lower bound is 0): the quotient
\* dot / sd / sq in units of 1/ScoreUnit is rounded down to a number below
\* it and rounded up to a number above it.
Cosine(dot, d_norm, q_norm) ==
  IF dot[2] = 0 THEN Zero
  ELSE LET sd == Sqrt(d_norm)
           sq == Sqrt(q_norm)
       IN <<ScaledDivDown(ScaledDivDown(dot[1], sd[2], Unit) - 1, sq[2], ScoreUnit),
            ScaledDivUp(ScaledDivUp(dot[2], sd[1], Unit) + 1, sq[1], ScoreUnit)>>

\* a variant of Retrieved that keeps a score of 0
RetrievedNonNegative(score) == score[2] >= 0

\* a variant of Retrieved with a cut-off of three quarters
RetrievedAboveCutOff(score) == score[1] >= (3 * ScoreUnit) \div 4

\* line 97: score > 0; a score is 0 exactly when its upper bound is
Retrieved(score) == score[2] > 0

\* lines 91-96 for one document; 0 where line 94 skips the document
ScoreOf(weights, q_vec, q_norm) ==
  LET d_norm == Norm(weights)
  IN IF d_norm[2] = 0 \/ q_norm[2] = 0 THEN Zero
     ELSE Cosine(Dot(weights, q_vec), d_norm, q_norm)

\* two documents whose weight dicts hold the same items in the same order:
\* lines 91-96 do the same floating-point operations for both
SameWeights(a, b) == a.w = b.w /\ a.keys = b.keys

\* the scores of the documents of wm, in order
RECURSIVE ScoreSeq(_, _, _)
ScoreSeq(wm, q_vec, q_norm) ==
  IF wm = <<>> THEN <<>>
  ELSE <<ScoreOf(Head(wm).w, q_vec, q_norm)>> \o ScoreSeq(Tail(wm), q_vec, q_norm)

\* the float with the bounds a is larger than the float with the bounds b,
\* whatever the rounding: a's lower bound is not below b's upper bound
Above(a, b) == a[2] > 0 /\ b[2] > 0 /\ a[1] >= b[2]

\* The score of line 96 is a float.  The model holds the bounds of its value
\* and, beside them, its rank among the scores of the call: of two scores the
\* one with the larger rank is the larger float, equal ranks are equal
\* floats.  A score whose bounds lie above another's has the larger rank, and
\* documents with the same weights have the same rank.  The order of two
\* scores whose bounds overlap is decided by digits the bounds do not show,
\* down to the rounding of math.log, of sum and of the division, which
\* differs between builds of the interpreter and of the C library, so every
\* other order is possible.  A document that is not retrieved has the rank 0,
\* and the ranks of the retrieved documents are 0..m without a gap.
Ranks(wm, sc) ==
  LET n == Len(wm)
      R == {i \in 1..n : Retrieved(sc[i])}
      below(i) == {sc[j] : j \in {m \in R : Above(sc[i], sc[m])}}
      decided == \A i \in R, j \in R :
                   Above(sc[i], sc[j]) \/ Above(sc[j], sc[i]) \/ SameWeights(wm[i], wm[j])
  IN IF decided THEN {[i \in 1..n |-> IF i \in R THEN Cardinality(below(i)) ELSE 0]}
     ELSE {rnd \in [1..n -> 0..(n - 1)] :
             /\ \A i \in (1..n) \ R : rnd[i] = 0
             /\ \A i \in R, j \in R :
                  /\ Above(sc[i], sc[j]) => rnd[i] > rnd[j]
                  /\ SameWeights(wm[i], wm[j]) => rnd[i] = rnd[j]
             /\ {rnd[i] : i \in R} = 0..(Cardinality({rnd[i] : i \in R}) - 1)}

Roundings(wm, q_vec, q_norm) ==
  UNION {Ranks(wm, sc) : sc \in {ScoreSeq(wm, q_vec, q_norm)}}

\* the loop of lines 89-98, over wm.items() in order; q_norm, which the loop
\* computes anew for every document, is the same number each time.  An entry
\* of doc_scores is <<doc, bounds of the score in 1/ScoreUnit, rank>>.
RECURSIVE ScoreDocs(_, _, _, _)
ScoreDocs(wm, q_vec, q_norm, rnd) ==
  IF wm = <<>> THEN <<>>
  ELSE LET weights == Head(wm).w
           d_norm == Norm(weights)
           rest == ScoreDocs(Tail(wm), q_vec, q_norm, Tail(rnd))
       IN IF d_norm[2] = 0 \/ q_norm[2] = 0 THEN rest
          ELSE LET score == Cosine(Dot(weights, q_vec), d_norm, q_norm)
               IN IF Retrieved(score) THEN <<<<Head(wm).id, score, Head(rnd)>>>> \o rest
                  ELSE rest

\* the order of two scores of one call as floats
Greater(a, b) == a[3] > b[3]
SameScore(a, b) == a[3] = b[3]

\* a variant of GoesBefore for a sort that puts a later entry before its equals
GoesBeforeStrict(earlier, later) == Greater(earlier, later)

\* list.sort(key=lambda x: x[1], reverse=True): stable, so an entry ends up
\* behind every earlier entry whose key is not smaller
GoesBefore(earlier, later) == Greater(earlier, later) \/ SameScore(earlier, later)

RECURSIVE InsertSorted(_, _)
InsertSorted(sorted, x) ==
  IF sorted = <<>> THEN <<x>>
  ELSE IF GoesBefore(Head(sorted), x) THEN <<Head(sorted)>> \o InsertSorted(Tail(sorted), x)
  ELSE <<x>> \o sorted

RECURSIVE SortDesc(_, _)
SortDesc(sorted, rest) ==
  IF rest = <<>> THEN sorted ELSE SortDesc(InsertSorted(sorted, Head(rest)), Tail(rest))

\* a variant of Slice that stops one entry early
SliceOffByOne(s, k) ==
  IF k >= 0 THEN SubSeq(s, 1, Min(k - 1, Len(s)))
  ELSE SubSeq(s, 1, Max(Len(s) + k, 0))

\* doc_scores[:top_k], negative top_k counting from the end
Slice(s, k) ==
  IF k >= 0 THEN SubSeq(s, 1, Min(k, Len(s)))
  ELSE SubSeq(s, 1, Max(Len(s) + k, 0))

\* lines 82-101: doc_scores after the sort.  rnd gives the ranks of the
\* scores, document by document.
SortedScores(q, v, wm, sch, rnd) ==
  LET q_tf == Counter(preprocess(q))
      q_vec == QueryVector(q_tf, v, sch)
  IN SortDesc(<<>>, ScoreDocs(wm, q_vec, Norm(q_vec), rnd))

\* line 102, as the value rank_vsm hands back: [raised, val]
Returned(doc_scores, k) == [raised |-> FALSE, val |-> Slice(doc_scores, k)]

\* no statement of rank_vsm raises
rank_vsm(q, v, wm, sch, k, rnd) == Returned(SortedScores(q, v, wm, sch, rnd), k)

\* the ranks the scores of one call can have
RoundingsOf(q, v, wm, sch) ==
  LET q_tf == Counter(preprocess(q))
      q_vec == QueryVector(q_tf, v, sch)
      q_norm == Norm(q_vec)
  IN Roundings(wm, q_vec, q_norm)

\* the lists doc_scores can be after the sort of one call
SortedLists(q, v, wm, sch) ==
  {SortedScores(q, v, wm, sch, rnd) : rnd \in RoundingsOf(q, v, wm, sch)}

(***************************************************************************)
(* Floating-point arithmetic on the quotients of integers: IEEE 754        *)
(* doubles, computed exactly.  A natural number of any size is the         *)
(* sequence of its digits in base Limb, lowest digit first, without a      *)
(* leading zero digit (the number 0 is the empty sequence).  A double      *)
(* above 0 is [m, e] with value m * 2^e and a mantissa m of MantissaBits   *)
(* bits; the doubles of the model are far from overflow and underflow.     *)
(***************************************************************************)
Limb == 8192
LimbBits == 13
MantissaBits == 53

RECURSIVE Pow2(_)
Pow2(k) == IF k = 0 THEN 1 ELSE 2 * Pow2(k - 1)

\* a without leading zero digits
RECURSIVE BigTrim(_)
BigTrim(a) == IF a = <<>> THEN <<>> ELSE IF Last(a) = 0 THEN BigTrim(Front(a)) ELSE a

\* a + b
BigAdd(a, b) ==
  LET RECURSIVE AddCarry(_, _, _)
      AddCarry(x, y, c) ==
        IF x = <<>> /\ y = <<>> THEN (IF c = 0 THEN <<>> ELSE <<c>>)
        ELSE LET d == (IF x = <<>> THEN 0 ELSE Head(x)) + (IF y = <<>> THEN 0 ELSE Head(y)) + c
             IN <<d % Limb>> \o AddCarry(IF x = <<>> THEN <<>> ELSE Tail(x),
                                         IF y = <<>> THEN <<>> ELSE Tail(y), d \div Limb)
  IN AddCarry(a, b, 0)

\* a - b for a >= b
BigSub(a, b) ==
  LET RECURSIVE SubBorrow(_, _, _)
      SubBorrow(x, y, c) ==
        IF x = <<>> THEN <<>>
        ELSE LET d == Head(x) - (IF y = <<>> THEN 0 ELSE Head(y)) - c
             IN <<(d + Limb) % Limb>> \o SubBorrow(Tail(x), IF y = <<>> THEN <<>> ELSE Tail(y),
                                                   IF d < 0 THEN 1 ELSE 0)
  IN BigTrim(SubBorrow(a, b, 0))

\* a < b
BigLess(a, b) ==
  LET RECURSIVE LessFromTop(_, _)
      LessFromTop(x, y) ==
        IF x = <<>> THEN FALSE
        ELSE IF Last(x) # Last(y) THEN Last(x) < Last(y)
        ELSE LessFromTop(Front(x), Front(y))
  IN IF Len(a) # Len(b) THEN Len(a) < Len(b) ELSE LessFromTop(a, b)

\* a * k for 0 <= k < 2^17
BigMulSmall(a, k) ==
  LET RECURSIVE MulCarry(_, _)
      MulCarry(x, c) ==
        IF x = <<>> THEN (IF c = 0 THEN <<>> ELSE <<c % Limb>> \o MulCarry(<<>>, c \div Limb))
        ELSE LET d == Head(x) * k + c IN <<d % Limb>> \o MulCarry(Tail(x), d \div Limb)
  IN IF k = 0 THEN <<>> ELSE MulCarry(a, 0)

\* a * b
RECURSIVE BigMul(_, _)
BigMul(a, b) ==
  IF a = <<>> \/ b = <<>> THEN <<>>
  ELSE BigAdd(BigMulSmall(b, Head(a)),
              IF Tail(a) = <<>> THEN <<>> ELSE <<0>> \o BigMul(Tail(a), b))

\* a * 2^n
RECURSIVE BigShl(_, _)
BigShl(a, n) ==
  IF a = <<>> THEN <<>>
  ELSE IF n >= LimbBits THEN <<0>> \o BigShl(a, n - LimbBits)
  ELSE BigMulSmall(a, Pow2(n))

\* a div 2^n: DivFrom(x, k, r) holds the digits of (r * Limb^Len(x) + x) div k
BigShr(a, n) ==
  LET RECURSIVE DivFrom(_, _, _)
      DivFrom(x, k, r) ==
        IF x = <<>> THEN <<>>
        ELSE LET d == r * Limb + Last(x)
             IN Append(DivFrom(Front(x), k, d % k), d \div k)
      limbs == n \div LimbBits
      rest == IF limbs >= Len(a) THEN <<>> ELSE SubSeq(a, limbs + 1, Len(a))
  IN BigTrim(DivFrom(rest, Pow2(n % LimbBits), 0))

\* the double nearest to (n + f) * 2^e, where f = 0 or, with sticky, some
\* 0 < f < 1; of two nearest doubles the one with the even mantissa.  The
\* double 0.0 has the empty mantissa.
NearestDouble(n, e, sticky) ==
  LET RECURSIVE BitsOf(_)
      BitsOf(k) == IF k = 0 THEN 0 ELSE 1 + BitsOf(k \div 2)
      BigBits(a) == IF a = <<>> THEN 0 ELSE LimbBits * (Len(a) - 1) + BitsOf(Last(a))
      bits == BigBits(n)
  IN IF bits = 0 THEN [m |-> <<>>, e |-> 0]
     ELSE IF bits <= MantissaBits
     THEN [m |-> BigShl(n, MantissaBits - bits), e |-> e - (MantissaBits - bits)]
     ELSE LET s == bits - MantissaBits
              q == BigShr(n, s)
              rem == BigSub(n, BigShl(q, s))
              half == BigShl(<<1>>, s - 1)
              up == BigLess(half, rem) \/ (rem = half /\ (sticky \/ Head(q) % 2 = 1))
              m == IF up THEN BigAdd(q, <<1>>) ELSE q
          IN IF BigBits(m) > MantissaBits THEN [m |-> BigShr(m, 1), e |-> e + s + 1]
             ELSE [m |-> m, e |-> e + s]

\* float(n) for an integer n >= 0
FlInt(n) ==
  LET RECURSIVE BigOf(_)
      BigOf(k) == IF k = 0 THEN <<>> ELSE <<k % Limb>> \o BigOf(k \div Limb)
  IN NearestDouble(BigOf(n), 0, FALSE)

\* x + y
FlAdd(x, y) ==
  IF x.m = <<>> THEN y
  ELSE IF y.m = <<>> THEN x
  ELSE LET e == Min(x.e, y.e)
       IN NearestDouble(BigAdd(BigShl(x.m, x.e - e), BigShl(y.m, y.e - e)), e, FALSE)

\* x * y
FlMul(x, y) ==
  IF x.m = <<>> \/ y.m = <<>> THEN FlInt(0)
  ELSE NearestDouble(BigMul(x.m, y.m), x.e + y.e, FALSE)

\* x / y for y > 0, by the long division of x.m * 2^(MantissaBits + 2) by
\* y.m, one binary digit of the quotient at a time: DivBits(r, q, n) is
\* <<quotient, remainder>> after n more digits, r < 2 * y.m being the
\* remainder so far, doubled, and q the digits found so far
FlDiv(x, y) ==
  LET DivStep(r, q) ==
        LET ge == ~BigLess(r, y.m)
        IN <<BigAdd(BigMulSmall(q, 2), IF ge THEN <<1>> ELSE <<>>),
             IF ge THEN BigSub(r, y.m) ELSE r>>
      RECURSIVE DivBits(_, _, _)
      DivBits(r, q, n) ==
        CHOOSE qr \in {IF n = 0 THEN s ELSE DivBits(BigMulSmall(s[2], 2), s[1], n - 1) :
                         s \in {DivStep(r, q)}} : TRUE
  IN IF x.m = <<>> THEN FlInt(0)
     ELSE LET qr == DivBits(x.m, <<>>, MantissaBits + 2)
          IN NearestDouble(qr[1], x.e - y.e - (MantissaBits + 2), qr[2] # <<>>)

\* round(x, 2) in hundredths: the multiple of 1/100 nearest to the value of
\* the double x, of two nearest multiples the even one
RoundDouble(x) ==
  LET RECURSIVE BigToInt(_)
      BigToInt(a) == IF a = <<>> THEN 0 ELSE Head(a) + Limb * BigToInt(Tail(a))
      n == BigMulSmall(x.m, 100)
  IN IF x.m = <<>> THEN 0
     ELSE IF x.e >= 0 THEN BigToInt(BigShl(n, x.e))
     ELSE LET s == 0 - x.e
              q == BigToInt(BigShr(n, s))
              rem == BigSub(n, BigShl(BigShr(n, s), s))
              half == BigShl(<<1>>, s - 1)
          IN IF BigLess(half, rem) \/ (rem = half /\ q % 2 = 1) THEN q + 1 ELSE q

(***************************************************************************)
(* search_engine.evaluate_vsm, boolean_ir.precision_recall and             *)
(* eval.ndcg_at_k.  The value of a metric that is a quotient of integers   *)
(* is held twice: as the fraction <<n, d>> in lowest terms, which is the   *)
(* real number the floating-point operations approximate, and as the       *)
(* double they produce.  A double differs from that real number by less    *)
(* than 2^-48 of it, a real number that is not halfway between two         *)
(* multiples of 1/100 is further than that from the halfway point, so      *)
(* round(x, 2) of the double is the multiple of 1/100 nearest to the       *)
(* fraction, except when the fraction lies halfway: then the double        *)
(* decides.  The discount 1 / log2(i + 1) is a fixed-point number in       *)
(* 1/DiscUnit; a metric rounded to two decimals is an integer number of    *)
(* hundredths.                                                             *)
(***************************************************************************)
Reduced(n, d) ==
  LET RECURSIVE Gcd(_, _)
      Gcd(a, b) == IF b = 0 THEN a ELSE Gcd(b, a % b)
  IN <<n \div Gcd(n, d), d \div Gcd(n, d)>>

FAdd(a, b) == Reduced(a[1] * b[2] + b[1] * a[2], a[2] * b[2])
FMul(a, b) == Reduced(a[1] * b[1], a[2] * b[2])
FDiv(a, b) == Reduced(a[1] * b[2], a[2] * b[1])
FPositive(a) == a[1] * a[2] > 0

\* the multiple of 1/100 nearest to the fraction a >= 0 that is not halfway
\* between two multiples
NearestHundredth(a) == (200 * a[1] + a[2]) \div (2 * a[2])

\* round(x, 2), in hundredths, of the double x that approximates the
\* fraction a >= 0; the double decides where a lies halfway between two
\* multiples of 1/100
RoundAs(a, x) ==
  IF (200 * a[1]) % a[2] = 0 /\ ((200 * a[1]) \div a[2]) % 2 = 1 THEN RoundDouble(x)
  ELSE NearestHundredth(a)

\* n / d for integers n >= 0, d > 0: the double nearest to the fraction
FloatOf(a) == FlDiv(FlInt(a[1]), FlInt(a[2]))

\* round(n / d, 2) in hundredths, for the quotient n / d of two integers
Round2(a) == RoundAs(a, FloatOf(a))

DiscUnit == 1000000

\* 1 / math.log2(i + 1) for i = 1, 2, ...
DiscTable == <<1000000, 630930, 500000, 430677, 386853, 356207, 333333, 315465, 301030>>

\* hits = [1 if doc in gold_set else 0 for doc in r]
Hits(r, gold) == [i \in 1..Len(r) |-> IF r[i][1] \in gold THEN 1 ELSE 0]

\* sum(hits)
RECURSIVE SumSeq(_)
SumSeq(s) == IF s = <<>> THEN 0 ELSE Head(s) + SumSeq(Tail(s))

\* the loop of lines 157-160 from position i on: the sum ap as a fraction
RECURSIVE ApLoop(_, _, _, _)
ApLoop(hits, i, ap, num_hits) ==
  IF i > Len(hits) THEN ap
  ELSE IF hits[i] = 1 THEN ApLoop(hits, i + 1, FAdd(ap, <<num_hits + 1, i>>), num_hits + 1)
  ELSE ApLoop(hits, i + 1, ap, num_hits)

\* a variant of Dcg without the discount
DcgUndiscounted(hits) == SumSeq(hits) * DiscUnit

\* sum(h / math.log2(i + 1) for i, h in enumerate(hits, start=1))
Dcg(hits) == SumSeq([i \in 1..Len(hits) |-> hits[i] * DiscTable[i]])

\* sum(1 / math.log2(i + 1) for i in range(1, ideal_hits + 1))
Idcg(ideal_hits) == SumSeq([i \in 1..ideal_hits |-> DiscTable[i]])

\* a variant of Precision that divides by the number of results looked at
PrecisionOverReturned(hits, k) == <<SumSeq(hits), Max(Len(hits), 1)>>

\* line 151: sum(hits) / k
Precision(hits, k) == <<SumSeq(hits), k>>

\* a variant of Recall that takes an empty gold set for a perfect match
RecallEmptyGoldPerfect(hits, gold) ==
  IF gold # {} THEN <<SumSeq(hits), Cardinality(gold)>> ELSE <<1, 1>>

\* line 152: sum(hits) / len(gold_set) if gold_set else 0
Recall(hits, gold) ==
  IF gold # {} THEN <<SumSeq(hits), Cardinality(gold)>> ELSE <<0, 1>>

\* line 153, as a fraction
F1(precision, recall) ==
  IF FPositive(FAdd(precision, recall))
  THEN FDiv(FMul(<<2, 1>>, FMul(precision, recall)), FAdd(precision, recall))
  ELSE <<0, 1>>

\* line 153, as the double of 2 * precision * recall / (precision + recall)
F1Float(precision, recall) ==
  LET p == FloatOf(precision)
      r == FloatOf(recall)
  IN IF FPositive(FAdd(precision, recall))
     THEN FlDiv(FlMul(FlMul(FlInt(2), p), r), FlAdd(p, r))
     ELSE FlInt(0)

\* lines 155-161, as a fraction
AveragePrecision(hits, gold) ==
  IF gold # {} THEN FDiv(ApLoop(hits, 1, <<0, 1>>, 0), <<Cardinality(gold), 1>>) ELSE <<0, 1>>

\* lines 155-161, as the double of ap / len(gold_set): Loop(i, ap, num_hits)
\* is the sum that the additions ap += num_hits / i of lines 157-160 produce
\* from position i on
AveragePrecisionFloat(hits, gold) ==
  LET RECURSIVE Loop(_, _, _)
      Loop(i, ap, num_hits) ==
        IF i > Len(hits) THEN ap
        ELSE IF hits[i] = 1
        THEN Loop(i + 1, FlAdd(ap, FloatOf(<<num_hits + 1, i>>)), num_hits + 1)
        ELSE Loop(i + 1, ap, num_hits)
  IN IF gold # {} THEN FlDiv(Loop(1, FlInt(0), 0), FlInt(Cardinality(gold))) ELSE FlInt(0)

\* a variant of IdealHits that counts every gold document
IdealHitsAllGold(gold, k) == Cardinality(gold)

\* line 164: min(len(gold_set), k)
IdealHits(gold, k) == Min(Cardinality(gold), k)

\* lines 163-166: dcg / idcg if idcg > 0 else 0
Ndcg(hits, gold, k) ==
  LET dcg == Dcg(hits)
      idcg == Idcg(IdealHits(gold, k))
  IN IF idcg > 0 THEN <<dcg, idcg>> ELSE <<0, 1>>

\* the value evaluate_vsm hands back for k >= 0: [raised, val], val the five
\* rounded metrics; sum(hits) / k raises ZeroDivisionError for k = 0
evaluate_vsm(results, gold, k) ==
  LET hits == Hits(Slice(results, k), gold)
  IN IF k = 0 THEN [raised |-> TRUE, val |-> <<>>]
     ELSE
       LET precision == Precision(hits, k)
           recall == Recall(hits, gold)
       IN [raised |-> FALSE,
           val |-> <<Round2(precision), Round2(recall),
                     RoundAs(F1(precision, recall), F1Float(precision, recall)),
                     RoundAs(AveragePrecision(hits, gold), AveragePrecisionFloat(hits, gold)),
                     NearestHundredth(Ndcg(hits, gold, k))>>]

\* boolean_ir.precision_recall: <<precision, recall>> in hundredths
precision_recall(res, gold) ==
  IF res = {} /\ gold = {} THEN <<100, 100>>
  ELSE IF res = {} THEN <<0, 0>>
  ELSE LET tp == Cardinality(res \cap gold)
           precision == <<tp, Cardinality(res)>>
           recall == IF gold # {} THEN <<tp, Cardinality(gold)>> ELSE <<0, 1>>
       IN <<Round2(precision), Round2(recall)>>

\* eval.ndcg_at_k, lines 186-200: the float dcg / idcg, not rounded, as bounds
\* <<lo, hi>> in units of 1/DiscUnit; the pair <<n, n>> is the number n
\* exactly.  The value is 0 where idcg is 0 (line 200) and 0.0 where no
\* position is a hit.  Where the hits are the positions 1..ideal_hits, the
\* two loops add the same floats in the same order (a position that is no
\* hit adds 0 / math.log2(i + 1) = 0.0), so dcg and idcg are the same float
\* and the quotient is exactly 1.0.  Otherwise the quotient lies strictly
\* between the bounds: an entry of DiscTable is less than one unit away from
\* 1 / math.log2(i + 1), so each sum is less than slack units away from the
\* sum of the floats.
ndcg_at_k(results, gold, k) ==
  LET hits == Hits(Slice(results, k), gold)
      ideal_hits == IdealHits(gold, k)
      dcg == Dcg(hits)
      idcg == Idcg(ideal_hits)
      slack == Len(hits) + ideal_hits + 1
  IN IF idcg = 0 \/ dcg = 0 THEN Zero
     ELSE IF {i \in 1..Len(hits) : hits[i] = 1} = 1..ideal_hits THEN <<DiscUnit, DiscUnit>>
     ELSE <<ScaledDivDown(dcg - slack, idcg + slack, DiscUnit),
            ScaledDivUp(dcg + slack, idcg - slack, DiscUnit)>>

(***************************************************************************)
(* The program: one run loads the collection, builds the index, the model  *)
(* and both weightings, then answers one query (phase "loaded", "ready",   *)
(* "done").  The run is either the script app/main.py, which searches only *)
(* when the query is not the empty string and takes top_k from a slider,   *)
(* or any caller of the functions of search_engine.py, which may hand them *)
(* any query string and any top_k.                                         *)
(***************************************************************************)
MkDocs(f) == [i \in DOMAIN f |-> [id |-> DocIds[i], toks |-> f[i]]]

\* one token sequence per set of terms
RECURSIVE SetToSeq(_)
SetToSeq(S) ==
  IF S = {} THEN <<>>
  ELSE LET x == CHOOSE y \in S : TRUE IN <<x>> \o SetToSeq(S \ {x})

TermSetDocs == {SetToSeq(S) : S \in {T \in SUBSET Terms : Cardinality(T) <= MaxDocLen}}

VsmDocWords == <<"itb", "kampus">>
VsmQueryWords == <<"itb", "kampus", "the", "UGM">>

\* one word sequence per multiset of at most n of the words
BagSeqs(words, n) ==
  {[i \in DOMAIN s |-> words[s[i]]] :
     s \in {t \in SeqsUpTo(DOMAIN words, n) : \A i \in 1..(Len(t) - 1) : t[i] <= t[i + 1]}}

\* the query strings of the specifications
BoolQueries ==
  {Join(ws) : ws \in SeqsUpTo(BoolWords, MaxQueryLen)} \cup SeqsUpTo(RawLexemes, MaxRawLen)

\* term (AND|OR term)*, each term with or without a NOT before it
Operand(neg, t) == IF neg THEN <<"NOT", t>> ELSE <<t>>

RECURSIVE WellFormedWords(_)
WellFormedWords(n) ==
  LET one == {Operand(neg, t) : neg \in BOOLEAN, t \in Terms} IN
  IF n = 1 THEN one
  ELSE {w \o <<o>> \o x : w \in WellFormedWords(n - 1), o \in {"AND", "OR"}, x \in one}

PrecQueries == {Join(ws) : ws \in UNION {WellFormedWords(n) : n \in 1..MaxOperands}}

VsmQueries == {Join(ws) : ws \in BagSeqs(VsmQueryWords, MaxVsmQueryLen)}

Schemes == {"tfidf", "sublinear"}
TopKs == (0 - 1)..MaxTopK

InitOver(collections) ==
  /\ docs \in collections
  /\ phase = "loaded"
  /\ inverted = EmptyDict
  /\ vsm = [tf |-> <<>>, df |-> [t \in {} |-> 0], idf |-> [t \in {} |-> Zero]]
  /\ wm_std = <<>>
  /\ wm_sub = <<>>
  /\ op = "none"
  /\ query = <<>>
  /\ scheme = "tfidf"
  /\ top_k = 5
  /\ result = [raised |-> FALSE, val |-> {}]
  /\ wm_name = "none"
  /\ ev_res = <<>>
  /\ gold_set = {}
  /\ ev_k = 5
  /\ metrics = [by |-> "none", raised |-> FALSE, val |-> <<>>]

\* app/main.py lines 18-21
Build ==
  /\ phase = "loaded"
  /\ phase' = "ready"
  /\ inverted' = build_inverted_index(docs)
  /\ vsm' = build_vsm(docs)
  /\ wm_std' = weight_tfidf_standard(build_vsm(docs))
  /\ wm_sub' = weight_tfidf_sublinear(build_vsm(docs))
  /\ UNCHANGED <<docs, op, query, scheme, top_k, result, wm_name, evaluation>>

\* search_boolean(query, inverted), as in app/main.py line 31
SearchBoolean(q) ==
  /\ phase = "ready"
  /\ phase' = "done"
  /\ op' = "boolean"
  /\ query' = q
  /\ result' = search_boolean(q, inverted)
  /\ inverted' = IndexAfter(q, inverted)
  /\ UNCHANGED <<docs, vsm, wm_std, wm_sub, scheme, top_k, wm_name, evaluation>>

\* app/main.py line 25: the ranked choices of the selectbox
Selections == {"VSM TF-IDF", "VSM Sublinear"}

\* a variant of WmName that hands over the standard weights whatever is selected
WmNameStandard(sel) == "wm_std"

\* app/main.py line 37: the weight model handed to rank_vsm
WmName(sel) == IF sel = "VSM TF-IDF" THEN "wm_std" ELSE "wm_sub"

\* app/main.py line 38: the scheme handed to rank_vsm
SchemeArg(sel) == IF sel = "VSM Sublinear" THEN "sublinear" ELSE "tfidf"

WmOf(name) == IF name = "wm_sub" THEN wm_sub ELSE wm_std

WmNames == {"wm_std", "wm_sub"}

\* the scheme the repository's calls of rank_vsm pass with each weight model
SchemeOf(name) == IF name = "wm_sub" THEN "sublinear" ELSE "tfidf"

\* res = rank_vsm(query, vsm, wm, scheme, top_k) with wm one of the two weight
\* models and top_k one of K: the result is rank_vsm(q, vsm, wm, sch, k, rnd)
\* for the ranks rnd the floats have, that is, the first top_k
\* entries of one of the sorted lists
CallRankVsm(q, name, sch, K) ==
  /\ phase = "ready"
  /\ phase' = "done"
  /\ op' = "vsm"
  /\ query' = q
  /\ wm_name' = name
  /\ scheme' = sch
  /\ \E doc_scores \in SortedLists(q, vsm, WmOf(name), sch), k \in K :
       /\ top_k' = k
       /\ result' = Returned(doc_scores, k)
  /\ UNCHANGED <<docs, inverted, vsm, wm_std, wm_sub, evaluation>>

\* app/main.py lines 37-38, top_k being the slider's value, one of K
RankVsm(q, sel, K) == CallRankVsm(q, WmName(sel), SchemeArg(sel), K)

\* search_engine.py lines 206-207: the two calls of the main block, both with
\* the default top_k = 5
MainCalls == {"res_std", "res_sub"}
MainWmName(call) == IF call = "res_std" THEN "wm_std" ELSE "wm_sub"
MainSchemeArg(call) == IF call = "res_std" THEN "tfidf" ELSE "sublinear"

MainRankVsm(q, call) == CallRankVsm(q, MainWmName(call), MainSchemeArg(call), {5})

\* app/main.py lines 28-38: the query of the run, drawn from Q once the
\* structures are built; line 28 lets only a non-empty query string through
BooleanRun(Q) == phase = "ready" /\ \E q \in Q : q # <<>> /\ SearchBoolean(q)
VsmRun(Q, K) ==
  phase = "ready" /\ \E q \in Q, sel \in Selections : q # <<>> /\ RankVsm(q, sel, K)

\* a call of search_boolean or of rank_vsm by any caller, with any query and
\* any top_k; the weight model and the scheme go together as in the
\* repository's own calls (app/main.py line 38, search_engine.py lines 206-207)
SearchCall(Q) == phase = "ready" /\ \E q \in Q : SearchBoolean(q)
RankCall(Q, K) ==
  phase = "ready" /\ \E q \in Q, name \in WmNames : CallRankVsm(q, name, SchemeOf(name), K)

Init == InitOver({MkDocs(f) : f \in [1..2 -> SeqsUpTo(Terms, MaxDocLen)]})

\* the script app/main.py with one-word queries
Next ==
  \/ Build
  \/ BooleanRun({<<w>> : w \in Terms \cup {"NOT"}})
  \/ VsmRun({<<w>> : w \in Terms}, {1})

Spec == Init /\ [][Next]_vars

\* Boolean retrieval: search_boolean called with any query string
InitBool == InitOver({MkDocs(f) : f \in [1..2 -> TermSetDocs]})
NextBool == Build \/ SearchCall(BoolQueries)
SpecBool == InitBool /\ [][NextBool]_vars

\* Boolean retrieval: search_boolean called with well-formed queries
NextPrec == Build \/ SearchCall(PrecQueries)
SpecPrec == InitBool /\ [][NextPrec]_vars

\* ranked retrieval: rank_vsm called with any query and top_k
InitVsm == InitOver({MkDocs(f) : f \in [1..3 -> BagSeqs(VsmDocWords, MaxDocLen)]})
NextVsm == Build \/ RankCall(VsmQueries, TopKs)
SpecVsm == InitVsm /\ [][NextVsm]_vars

\* the ranked searches of the two entry points: app/main.py with the slider's
\* top_k (line 26: 1..10), and the main block of search_engine.py; neither
\* searches with the empty string
MainRun(Q) == phase = "ready" /\ \E q \in Q, call \in MainCalls : MainRankVsm(q, call)
AppTopKs == 1..MaxTopK
AppVsmQueries == VsmQueries \ {<<>>}
InitEntry == InitOver({MkDocs(f) : f \in [1..2 -> BagSeqs(VsmDocWords, MaxDocLen)]})
NextEntry == Build \/ VsmRun(AppVsmQueries, AppTopKs) \/ MainRun(AppVsmQueries)
SpecEntry == InitEntry /\ [][NextEntry]_vars

\* the library functions called in the scripts' order by a caller without the
\* scripts' "if not docs" guard: any collection of up to two documents, the
\* empty one included
LibBoolQueries == {Join(ws) : ws \in UNION {WellFormedWords(n) : n \in 1..2}}
LibVsmQueries == {Join(ws) : ws \in SeqsUpTo(Terms, MaxVsmQueryLen)}
InitLib ==
  InitOver(UNION {{MkDocs(f) : f \in [1..n -> SeqsUpTo(Terms, MaxDocLen)]} : n \in 0..2})
NextLib == Build \/ SearchCall(LibBoolQueries) \/ RankCall(LibVsmQueries, {MaxTopK})
SpecLib == InitLib /\ [][NextLib]_vars

(***************************************************************************)
(* The evaluation functions called on a search result: a ranked list of    *)
(* (document, score) pairs or a Boolean result set, with any gold set and  *)
(* any k >= 0.                                                             *)
(***************************************************************************)
EvalIds == {DocIds[i] : i \in DOMAIN DocIds}

\* [(d, 1) for d in ...]
Pseudo(order) == [i \in DOMAIN order |-> <<order[i], <<ScoreUnit, ScoreUnit>>, 0>>]

ResultLists == {Pseudo(ids) : ids \in SeqsUpTo(EvalIds, MaxResLen)}

\* the orders in which iterating a set can yield its elements
Enumerations(S) ==
  {order \in [1..Cardinality(S) -> S] :
     \A i \in DOMAIN order, j \in DOMAIN order : i # j => order[i] # order[j]}

InitEval ==
  /\ docs = <<>>
  /\ phase = "call"
  /\ inverted = EmptyDict
  /\ vsm = [tf |-> <<>>, df |-> [t \in {} |-> 0], idf |-> [t \in {} |-> Zero]]
  /\ wm_std = <<>>
  /\ wm_sub = <<>>
  /\ query = <<>>
  /\ scheme = "tfidf"
  /\ top_k = 5
  /\ wm_name = "none"
  /\ \/ op = "vsm" /\ result \in {[raised |-> FALSE, val |-> l] : l \in ResultLists}
     \/ op = "boolean" /\ result \in {[raised |-> FALSE, val |-> S] : S \in SUBSET EvalIds}
  /\ ev_res = <<>>
  /\ gold_set \in SUBSET EvalIds
  /\ ev_k \in 0..MaxK
  /\ metrics = [by |-> "none", raised |-> FALSE, val |-> <<>>]

search == <<docs, inverted, vsm, wm_std, wm_sub, op, query, scheme, top_k, result, wm_name>>

\* search_engine.py lines 221-223, app/main.py lines 43-44 with a ranked result
EvaluateRanked ==
  /\ phase = "call" /\ op = "vsm"
  /\ phase' = "evaluated"
  /\ ev_res' = result.val
  /\ metrics' = [by |-> "evaluate_vsm"] @@ evaluate_vsm(result.val, gold_set, ev_k)
  /\ UNCHANGED <<search, gold_set, ev_k>>

\* search_engine.py line 254, app/main.py lines 43-44 with a Boolean result:
\* the list comprehension iterates the set in an order the caller does not fix
EvaluateBoolean ==
  /\ phase = "call" /\ op = "boolean"
  /\ phase' = "evaluated"
  /\ \E order \in Enumerations(result.val) :
       /\ ev_res' = Pseudo(order)
       /\ metrics' = [by |-> "evaluate_vsm"] @@ evaluate_vsm(Pseudo(order), gold_set, ev_k)
  /\ UNCHANGED <<search, gold_set, ev_k>>

\* boolean_ir.py line 212
PrecisionRecall ==
  /\ phase = "call" /\ op = "boolean"
  /\ phase' = "evaluated"
  /\ metrics' = [by |-> "precision_recall", raised |-> FALSE,
                 val |-> precision_recall(result.val, gold_set)]
  /\ UNCHANGED <<search, ev_res, gold_set, ev_k>>

\* eval.py line 266
NdcgAtK ==
  /\ phase = "call" /\ op = "vsm"
  /\ phase' = "evaluated"
  /\ ev_res' = result.val
  /\ metrics' = [by |-> "ndcg_at_k", raised |-> FALSE,
                 val |-> ndcg_at_k(result.val, gold_set, ev_k)]
  /\ UNCHANGED <<search, gold_set, ev_k>>

(***************************************************************************)
(* The evaluation step of app/main.py, lines 42-46.                        *)
(***************************************************************************)
\* w in text, for strings
Substring(w, text) ==
  \E i \in 1..(Len(text) - Len(w) + 1) : SubSeq(text, i, i + Len(w) - 1) = w

\* query.lower().split(): only whitespace separates
RECURSIVE WhitespaceSplit(_, _)
WhitespaceSplit(text, run) ==
  LET word == IF run = <<>> THEN <<>> ELSE <<Concat(run)>> IN
  IF text = <<>> THEN word
  ELSE IF Head(text) = " " THEN word \o WhitespaceSplit(Tail(text), <<>>)
  ELSE WhitespaceSplit(Tail(text), Append(run, Lower(Head(text))))

\* " ".join(docs[f]).lower(), as one string
RECURSIVE JoinedLower(_)
JoinedLower(toks) ==
  IF toks = <<>> THEN ""
  ELSE IF Len(toks) = 1 THEN Lower(Head(toks))
  ELSE Lower(Head(toks)) \o " " \o JoinedLower(Tail(toks))

\* line 42
AppGoldSet(ds, q) ==
  {ds[i].id : i \in {j \in 1..Len(ds) :
     \E w \in TokSet(WhitespaceSplit(q, <<>>)) : Substring(w, JoinedLower(ds[j].toks))}}

\* the default of the parameter k of evaluate_vsm, which line 44 does not pass
DefaultK == 5

\* lines 42-44, reached when the query is not the empty string (line 28)
AppEvaluate ==
  /\ phase = "done"
  /\ query # <<>>
  /\ phase' = "evaluated"
  /\ gold_set' = AppGoldSet(docs, query)
  /\ ev_k' = DefaultK
  /\ \E order \in (IF op = "boolean" THEN Enumerations(result.val) ELSE {<<>>}) :
       LET res == IF op = "boolean" THEN Pseudo(order) ELSE result.val IN
       /\ ev_res' = res
       /\ metrics' = [by |-> "evaluate_vsm"] @@ evaluate_vsm(res, AppGoldSet(docs, query), DefaultK)
  /\ UNCHANGED search

AppBoolQueries == {Join(ws) : ws \in SeqsUpTo({"itb", "kampus", "Not"}, 2)} \ {<<>>}
NextApp ==
  \/ Build
  \/ BooleanRun(AppBoolQueries)
  \/ VsmRun(AppVsmQueries, AppTopKs)
  \/ AppEvaluate
SpecApp == InitEntry /\ [][NextApp]_vars

NextEval == EvaluateRanked \/ EvaluateBoolean \/ PrecisionRecall \/ NdcgAtK
SpecEval == InitEval /\ [][NextEval]_vars

(***************************************************************************)
(* Properties.                                                             *)
(***************************************************************************)
AllIds == {docs[i].id : i \in 1..Len(docs)}
DocPos(id) == CHOOSE i \in 1..Len(docs) : docs[i].id = id
Contains(i, t) == \E j \in 1..Len(docs[i].toks) : docs[i].toks[j] = t
QueryWordsOf(q) == SelectSeq(q, LAMBDA w : w # " ")
Answered == phase = "done" /\ op = "boolean"
Ranked == phase = "done" /\ op = "vsm"

\* C1: once the index is built, a document id is in the posting set of a term
\* exactly when the term occurs in the document's tokens; every key is a term of
\* some document, so no posting set is empty
C1_IndexMembership ==
  phase # "loaded" =>
    /\ \A i \in 1..Len(docs), t \in Terms :
         docs[i].id \in Get(inverted, t, {}) <=> Contains(i, t)
    /\ \A t \in DOMAIN inverted :
         /\ inverted[t] # {}
         /\ inverted[t] \subseteq AllIds
         /\ \E i \in 1..Len(docs) : Contains(i, t)

C1_Witness ==
  /\ phase = "ready"
  /\ docs[1].toks = <<"itb", "itb">>
  /\ docs[2].toks = <<"ugm", "itb">>
  /\ inverted["itb"] = {"d1", "d2"}

\* C2: the query "NOT x" returns exactly the documents of the collection that
\* do not contain x, documents without any token included
C2_NotReturnsComplement ==
  \A x \in {"itb", "UGM"} :
    (Answered /\ query = <<"Not", " ", x>>) =>
      /\ ~result.raised
      /\ result.val = {docs[i].id : i \in {j \in 1..Len(docs) : ~Contains(j, Lower(x))}}

\* The reference reading of a well-formed query: OR of ANDs of terms, each
\* term possibly negated, the complement taken in the evaluator's universe.
RECURSIVE SplitAt(_, _, _)
SplitAt(words, sep, group) ==
  IF words = <<>> THEN <<group>>
  ELSE IF Head(words) = sep THEN <<group>> \o SplitAt(Tail(words), sep, <<>>)
  ELSE SplitAt(Tail(words), sep, Append(group, Head(words)))

RefFactor(f, index) ==
  IF Head(f) = "NOT" THEN AllDocs(index) \ Get(index, f[2], {}) ELSE Get(index, f[1], {})

RefAnd(g, index) ==
  LET fs == SplitAt(g, "AND", <<>>)
  IN {d \in AllIds : \A i \in 1..Len(fs) : d \in RefFactor(fs[i], index)}

RefOr(words, index) ==
  LET gs == SplitAt(words, "OR", <<>>)
  IN {d \in AllIds : \E i \in 1..Len(gs) : d \in RefAnd(gs[i], index)}

\* C3: a query of terms joined by AND and OR, each term with or without one NOT
\* before it, evaluates to the union over its OR-separated groups of the
\* intersection of the group's terms, NOT applying to the single term after it
C3_Precedence ==
  Answered => /\ ~result.raised
              /\ result.val = RefOr(QueryWordsOf(query), inverted)

C3_Witness ==
  /\ Answered
  /\ query = Join(<<"itb", "OR", "ugm", "AND", "NOT", "kota">>)
  /\ Contains(1, "itb") /\ Contains(1, "kota")
  /\ Contains(2, "ugm") /\ ~Contains(2, "kota")
  /\ result.val = {"d1", "d2"}

\* C4: "a AND b" and "b AND a" return the same set, and so do "a OR b" and
\* "b OR a"
C4_Commutative ==
  \A a \in {"itb", "UGM"}, b \in {"itb", "UGM"}, o \in {"AND", "or"} :
    (Answered /\ query = Join(<<a, o, b>>)) =>
      result = eval_boolean(Join(<<b, o, a>>), inverted)

C4_Witness ==
  /\ Answered
  /\ query = Join(<<"itb", "AND", "UGM">>)
  /\ Contains(1, "itb") /\ ~Contains(1, "ugm")
  /\ Contains(2, "itb") /\ Contains(2, "ugm")
  /\ result.val = {"d2"}

\* C5: whatever the query, eval_boolean raises nothing and returns a set of
\* document ids; a binary operator that finds fewer than two operands is
\* skipped, and a NOT that finds no operand complements the universe
C5_NeverRaises ==
  Answered =>
    /\ ~result.raised
    /\ result.val \subseteq AllIds
    /\ Tokenize(query) = <<"NOT">> => result.val = {}
    /\ \A t \in {"itb", "ugm"}, o \in {"AND", "OR"} :
         Tokenize(query) \in {<<t, o>>, <<o, t>>} => result.val = Get(inverted, t, {})

C5_Witness ==
  /\ Answered
  /\ Tokenize(query) = <<"AND", "itb", "OR", "NOT">>
  /\ Contains(1, "ugm") /\ ~Contains(1, "itb")
  /\ result.val = {"d1"}

\* C6: an empty query string, or one of whitespace only, returns the empty set
\* and raises nothing
C6_EmptyQuery ==
  (Answered /\ \A i \in 1..Len(query) : query[i] = " ") =>
    result = [raised |-> FALSE, val |-> {}]

C6_Witness ==
  /\ Answered
  /\ query = <<" ", " ">>
  /\ DOMAIN inverted = {"itb", "ugm"}
  /\ result.val = {}

\* Scores[i] holds the bounds, in 1/ScoreUnit, of the score rank_vsm computes
\* for the i-th document of the weight model of the call.
RankedWm == WmOf(wm_name)
Scores ==
  LET q_vec == QueryVector(Counter(preprocess(query)), vsm, scheme)
      q_norm == Norm(q_vec)
  IN ScoreSeq(RankedWm, q_vec, q_norm)
Positive(sc) == {i \in DOMAIN sc : sc[i][2] > 0}
InResult(id) == \E j \in 1..Len(result.val) : result.val[j][1] = id

\* C7: every (document, score) pair rank_vsm returns has a score above 0
C7_PositiveScores ==
  Ranked => \A j \in 1..Len(result.val) : result.val[j][2][2] > 0

C7_Witness ==
  /\ Ranked
  /\ top_k = MaxTopK
  /\ Len(result.val) = 2
  /\ \E i \in 1..Len(RankedWm) :
       /\ Norm(RankedWm[i].w)[1] > 0
       /\ Scores[i] = Zero
       /\ ~InResult(RankedWm[i].id)

\* C8: for top_k >= 1 the result holds min(top_k, P) documents, P the number of
\* documents with a positive score: each with its score, no document twice,
\* in non-increasing order of score (of the floats, and so of their bounds),
\* and no document left out scores higher than one returned
C8_TopK ==
  (Ranked /\ top_k >= 1) =>
    LET r == result.val
        sc == Scores
        pos == Positive(sc)
    IN
    /\ Len(r) = Min(top_k, Cardinality(pos))
    /\ \A j \in 1..Len(r) : \E i \in pos : r[j][1] = RankedWm[i].id /\ r[j][2] = sc[i]
    /\ \A j \in 1..Len(r), k \in 1..Len(r) : j # k => r[j][1] # r[k][1]
    /\ \A j \in 1..(Len(r) - 1) : ~Greater(r[j + 1], r[j]) /\ ~Above(r[j + 1][2], r[j][2])
    /\ \A i \in pos :
         ~InResult(RankedWm[i].id) => \A j \in 1..Len(r) : ~Above(sc[i], r[j][2])

C8_Witness ==
  /\ Ranked
  /\ top_k = 2
  /\ Cardinality(Positive(Scores)) = 3
  /\ Len(result.val) = 2
  /\ result.val[1][1] = "d3"
  /\ Above(result.val[1][2], result.val[2][2])
  /\ \E i \in Positive(Scores) : ~InResult(RankedWm[i].id)

\* C9: two returned documents with the same score stand in the order in which
\* the collection lists them
C9_StableTies ==
  Ranked =>
    \A j \in 1..Len(result.val), k \in 1..Len(result.val) :
      (j < k /\ SameScore(result.val[j], result.val[k])) =>
        DocPos(result.val[j][1]) < DocPos(result.val[k][1])

C9_Witness ==
  /\ Ranked
  /\ Len(result.val) = 3
  /\ result.val[1][1] = "d2"
  /\ result.val[2][1] = "d1"
  /\ result.val[3][1] = "d3"
  /\ Greater(result.val[1], result.val[2])
  /\ SameScore(result.val[2], result.val[3])

\* C10: a call of rank_vsm with top_k <= 0 raises an error instead of returning
\* a list
C10_NonPositiveTopKRaises ==
  (Ranked /\ top_k <= 0) => result.raised

\* C11: index building and weight building do not return on an empty
\* collection (they report an error): a run on the empty collection never gets
\* past the builds with an empty index and an empty model in hand
C11_EmptyCollectionRaises ==
  docs = <<>> => phase = "loaded"

EvaluatedBy(f) == phase = "evaluated" /\ metrics.by = f

\* the number of gold documents among the first ev_k entries of ev_res
HitCount == Cardinality({i \in 1..Min(ev_k, Len(ev_res)) : ev_res[i][1] \in gold_set})

\* C12: evaluate_vsm reports precision@k as the number of gold documents among
\* the first k results over k itself, also when fewer than k results exist,
\* recall as that number over |gold| and F1 as 2PR/(P+R), each rounded to two
\* decimals; gold = {d1, d3}, results d1..d5 and k = 5 give 2/5, 2/2 and 4/7
C12_PrecisionAtFixedK ==
  /\ (EvaluatedBy("evaluate_vsm") /\ ~metrics.raised) =>
       /\ metrics.val[1] = Round2(<<HitCount, ev_k>>)
       /\ metrics.val[2] =
            IF gold_set = {} THEN 0 ELSE Round2(<<HitCount, Cardinality(gold_set)>>)
       /\ metrics.val[3] =
            IF HitCount = 0 THEN 0
            ELSE Round2(<<2 * HitCount, ev_k + Cardinality(gold_set)>>)
  /\ LET e == evaluate_vsm(Pseudo(<<"d1", "d2", "d3", "d4", "d5">>), {"d1", "d3"}, 5)
     IN /\ ~e.raised
        /\ e.val[1] = 40
        /\ e.val[2] = 100
        /\ e.val[3] = Round2(<<4, 7>>)
        /\ e.val[3] = 57

C12_Witness ==
  /\ EvaluatedBy("evaluate_vsm")
  /\ ev_k = 4
  /\ Len(ev_res) = 2
  /\ HitCount = 1
  /\ metrics.val[1] = 25
  /\ metrics.val[2] = 50

\* C13: precision_recall returns (1, 1) for an empty result set with an empty
\* gold set; evaluate_vsm, called with k >= 1 and an empty gold set, returns 0
\* for recall, MAP@k and nDCG@k whatever the result list
C13_EmptyGoldConventions ==
  /\ (EvaluatedBy("precision_recall") /\ result.val = {} /\ gold_set = {}) =>
       metrics.val = <<100, 100>>
  /\ (EvaluatedBy("evaluate_vsm") /\ ev_k >= 1 /\ gold_set = {}) =>
       /\ ~metrics.raised
       /\ metrics.val[2] = 0
       /\ metrics.val[4] = 0
       /\ metrics.val[5] = 0

C13_Witness ==
  /\ EvaluatedBy("evaluate_vsm")
  /\ op = "vsm"
  /\ gold_set = {}
  /\ ev_k = 2
  /\ Len(ev_res) = MaxResLen
  /\ metrics.val = <<0, 0, 0, 0, 0>>

\* the first ev_k entries of ev_res exist and are all gold, and |gold| >= ev_k
PerfectTopK ==
  /\ ev_k >= 1
  /\ Cardinality(gold_set) >= ev_k
  /\ Len(ev_res) >= ev_k
  /\ \A i \in 1..ev_k : ev_res[i][1] \in gold_set

\* C14: for k >= 1, a gold set of at least k documents and a result list whose
\* first k entries are all gold, the DCG sum equals the ideal DCG sum and
\* nDCG@k is exactly 1: evaluate_vsm returns 1.0 (100 hundredths), and
\* ndcg_at_k returns the float 1.0 itself, lower and upper bound both 1
C14_PerfectNdcg ==
  /\ (EvaluatedBy("evaluate_vsm") /\ PerfectTopK) =>
       /\ Dcg(Hits(Slice(ev_res, ev_k), gold_set)) = Idcg(IdealHits(gold_set, ev_k))
       /\ metrics.val[5] = 100
  /\ (EvaluatedBy("ndcg_at_k") /\ PerfectTopK) =>
       /\ Dcg(Hits(Slice(ev_res, ev_k), gold_set)) = Idcg(IdealHits(gold_set, ev_k))
       /\ metrics.val = <<DiscUnit, DiscUnit>>

C14_Witness ==
  /\ EvaluatedBy("ndcg_at_k")
  /\ PerfectTopK
  /\ ev_k = 2
  /\ Len(ev_res) = 3
  /\ Cardinality(gold_set) = 3
  /\ metrics.val = <<DiscUnit, DiscUnit>>
  /\ ndcg_at_k(ev_res, gold_set, 3) = <<DiscUnit, DiscUnit>>
  /\ ndcg_at_k(Tail(ev_res), gold_set, 3)[2] < DiscUnit

\* C16: evaluate_vsm returns five metric values for every result list, every
\* gold set and every k >= 0; it never raises
C16_EvaluateAlwaysDefined ==
  EvaluatedBy("evaluate_vsm") => (~metrics.raised /\ Len(metrics.val) = 5)

\* C20: the metrics evaluate_vsm reports for a Boolean result set are the same
\* for every order in which the set can be enumerated into the pseudo-ranked
\* list
C20_BooleanMetricsDeterministic ==
  (EvaluatedBy("evaluate_vsm") /\ op = "boolean") =>
    \A order \in Enumerations(result.val) :
      evaluate_vsm(Pseudo(order), gold_set, ev_k).val = metrics.val

\* the terms that occur in no document of the collection
Unseen == {t \in Terms : \A i \in 1..Len(docs) : ~Contains(i, t)}

\* C15: a term that occurs in no document raises no error; in eval_boolean it
\* stands for the empty set (alone it returns nothing, OR-ed to a query it
\* leaves the result as it is), and appended to the query of rank_vsm it
\* changes neither the documents returned nor their scores nor their order
\* (the scores are the same floats: the ranks they can have are the same, and
\* with the same ranks the result is the same)
C15_UnseenTerm ==
  /\ Answered =>
       /\ ~result.raised
       /\ \A u \in Unseen :
            /\ eval_boolean(<<u>>, inverted) = [raised |-> FALSE, val |-> {}]
            /\ eval_boolean(query \o <<" ", "OR", " ", u>>, inverted) = result
  /\ Ranked =>
       /\ ~result.raised
       /\ \A u \in Unseen :
            LET longer == query \o <<" ", u>>
                rnds == RoundingsOf(query, vsm, WmOf(wm_name), scheme)
            IN /\ RoundingsOf(longer, vsm, WmOf(wm_name), scheme) = rnds
               /\ \A rnd \in rnds :
                    rank_vsm(longer, vsm, WmOf(wm_name), scheme, top_k, rnd) =
                      rank_vsm(query, vsm, WmOf(wm_name), scheme, top_k, rnd)
               /\ \E rnd \in rnds :
                    rank_vsm(longer, vsm, WmOf(wm_name), scheme, top_k, rnd) = result

C15_Witness ==
  /\ Ranked
  /\ Len(docs) = 2
  /\ \E u \in Unseen : query = <<"itb", " ", u>>
  /\ Len(result.val) = 2
  /\ result.val[1][1] = "d2"
  /\ Above(result.val[1][2], result.val[2][2])

\* the terms of document i as build_vsm counts them
TermsOf(i) == TokSet(preprocess(Join(docs[i].toks)))

\* C17: when the builds return, build_vsm has kept df and idf for exactly the
\* terms of the collection;
\* df(t) is the number of documents with t among their terms, however often t
\* is repeated in one of them, so 1 <= df(t) <= N, the smoothed ratio
\* (N + 1) / (df(t) + 1) is at least 1 and idf(t) is above 0; every term of a
\* document has a weight above 0 under both schemes, also when df(t) = N
C17_DfIdf ==
  phase = "ready" =>
    LET N == Len(docs)
        terms == UNION {TermsOf(i) : i \in 1..N}
    IN /\ DOMAIN vsm.df = terms
       /\ DOMAIN vsm.idf = terms
       /\ \A t \in terms :
            /\ vsm.df[t] = Cardinality({i \in 1..N : t \in TermsOf(i)})
            /\ 1 <= vsm.df[t]
            /\ vsm.df[t] <= N
            /\ LogRatio(N + 1, vsm.df[t] + 1)[1] >= 0
            /\ vsm.idf[t][1] > 0
       /\ \A i \in 1..N : \A t \in TermsOf(i) :
            /\ wm_std[i].w[t][1] > 0
            /\ wm_sub[i].w[t][1] > 0

C17_Witness ==
  /\ phase = "ready"
  /\ Len(docs) = 3
  /\ docs[1].toks = <<"itb", "itb">>
  /\ vsm.tf[1].tf["itb"] = 2
  /\ vsm.df["itb"] = 3
  /\ vsm.idf["itb"] = One
  /\ wm_std[1].w["itb"] = <<2 * Unit, 2 * Unit>>
  /\ wm_sub[1].w["itb"][1] > Unit

\* C18: in every call of rank_vsm that app/main.py or the main block of
\* search_engine.py makes, the scheme that weights the query is the scheme
\* that produced the document weights handed over as wm
C18_SchemePairing ==
  Ranked =>
    /\ \/ (wm_name = "wm_std" /\ scheme = "tfidf")
       \/ (wm_name = "wm_sub" /\ scheme = "sublinear")
    /\ LET wm == IF scheme = "sublinear" THEN weight_tfidf_sublinear(vsm)
                 ELSE weight_tfidf_standard(vsm)
       IN \E rnd \in RoundingsOf(query, vsm, wm, scheme) :
            result = rank_vsm(query, vsm, wm, scheme, top_k, rnd)

C18_Witness ==
  /\ Ranked
  /\ wm_name = "wm_sub"
  /\ scheme = "sublinear"
  /\ top_k = 2
  /\ wm_sub # wm_std
  /\ Len(result.val) = 2
  /\ Above(result.val[1][2], result.val[2][2])

\* C19: "NOT NOT a" returns the posting set of a: the two negations cancel
C19_DoubleNegation ==
  \A a \in {"itb", "UGM"} :
    (Answered /\ query = Join(<<"Not", "Not", a>>)) =>
      result = [raised |-> FALSE, val |-> Get(inverted, Lower(a), {})]

\* the value stacks of the postfix evaluation, one after each token
RECURSIVE EvalStacks(_, _, _, _)
EvalStacks(output, st, inverted_index, all_docs) ==
  IF output = <<>> \/ st.raised THEN <<>>
  ELSE LET nxt == EvalTok(st, Head(output), inverted_index, all_docs)
       IN <<nxt.stack>> \o EvalStacks(Tail(output), nxt, inverted_index, all_docs)

StacksOf(q) ==
  EvalStacks(ToPostfix(Tokenize(q)), [raised |-> FALSE, stack |-> <<>>],
             inverted, AllDocs(inverted))

\* C21: whatever the query, every set on the value stack of the postfix
\* evaluation, and so the result, is a subset of the union of the posting sets
\* of the index; and the call leaves the index as build_inverted_index made it
C21_StackWithinUniverse ==
  Answered =>
    LET stacks == StacksOf(query) IN
    /\ \A n \in 1..Len(stacks) : \A j \in 1..Len(stacks[n]) :
         stacks[n][j] \subseteq AllDocs(inverted)
    /\ result.val \subseteq AllDocs(inverted)
    /\ inverted = build_inverted_index(docs)

C21_Witness ==
  /\ Answered
  /\ query = Join(<<"itb", "or", "Not", "UGM">>)
  /\ Len(StacksOf(query)) = 4
  /\ \E n \in 1..4 : Len(StacksOf(query)[n]) = 2
  /\ AllDocs(inverted) = {"d1", "d2"}
  /\ result.val = {"d1"}
  /\ DOMAIN inverted = {"itb", "ugm"}

\* the terms of the query as rank_vsm counts them
QueryTerms == TokSet(preprocess(query))

\* C22: a document is in the result of rank_vsm, when top_k cuts nothing off,
\* exactly when it has a term in common with the preprocessed query; a
\* document of a truncated result has one too; no document is returned twice
C22_RetrievedIffSharedTerm ==
  Ranked =>
    /\ \A i \in 1..Len(docs) :
         /\ InResult(docs[i].id) => TermsOf(i) \cap QueryTerms # {}
         /\ (top_k >= Len(docs) /\ TermsOf(i) \cap QueryTerms # {}) => InResult(docs[i].id)
    /\ \A j \in 1..Len(result.val), n \in 1..Len(result.val) :
         j # n => result.val[j][1] # result.val[n][1]

C22_Witness ==
  /\ Ranked
  /\ top_k = MaxTopK
  /\ Len(docs) = 3
  /\ Cardinality(QueryTerms) = 2
  /\ Len(result.val) = 2
  /\ result.val[2][2][2] < (3 * ScoreUnit) \div 4
  /\ \E i \in 1..3 :
       /\ TermsOf(i) # {}
       /\ TermsOf(i) \cap QueryTerms = {}
       /\ ~InResult(docs[i].id)
  /\ \E i \in 1..3 :
       /\ Cardinality(TermsOf(i)) = 2
       /\ Cardinality(TermsOf(i) \cap QueryTerms) = 1
       /\ InResult(docs[i].id)

\* no document id occurs twice in ev_res
DistinctResults ==
  \A i \in 1..Len(ev_res), j \in 1..Len(ev_res) : i # j => ev_res[i][1] # ev_res[j][1]

\* C23: for a result list of pairwise distinct documents, any gold set and
\* k >= 1, evaluate_vsm counts at most min(k, |gold|) hits, DCG is at most the
\* ideal DCG, and each of the five metrics lies between 0 and 1
C23_MetricsInUnitInterval ==
  (EvaluatedBy("evaluate_vsm") /\ ev_k >= 1 /\ DistinctResults) =>
    LET hits == Hits(Slice(ev_res, ev_k), gold_set) IN
    /\ ~metrics.raised
    /\ SumSeq(hits) = HitCount
    /\ HitCount <= Min(ev_k, Cardinality(gold_set))
    /\ Dcg(hits) <= Idcg(IdealHits(gold_set, ev_k))
    /\ \A n \in 1..5 : metrics.val[n] >= 0 /\ metrics.val[n] <= 100

C23_Witness ==
  /\ EvaluatedBy("evaluate_vsm")
  /\ DistinctResults
  /\ ev_k = 2
  /\ Len(ev_res) = 3
  /\ Cardinality(gold_set) = 2
  /\ HitCount = 1
  /\ ev_res[3][1] \in gold_set
  /\ metrics.val[1] = 50
  /\ metrics.val[4] = 25
  /\ metrics.val[5] > 0 /\ metrics.val[5] < 50

\* C24: the metrics the application shows for a search are those of
\* evaluate_vsm with k equal to the top_k the user selected
C24_MetricsAtTopK ==
  (phase = "evaluated" /\ metrics.by = "evaluate_vsm" /\ op = "vsm") =>
    metrics.val = evaluate_vsm(ev_res, gold_set, top_k).val

====
